---- MODULE Spec2Model ----
(***************************************************************************)
(* copy-github-to-github: mirror one repository, or every repository of an *)
(* organization, from a source GitHub to a target GitHub.                  *)
(*                                                                         *)
(* Three programs are modelled:                                            *)
(*   "every"  src/unnamed/part_000: one command, -every repeat loop        *)
(*   "org"    src/main.go (1-277): the `org` subcommand                    *)
(*   "repo"   src/main.go (1-277): the `repo` subcommand                   *)
(*                                                                         *)
(* A string is a sequence of characters.  A character is "/" or any other  *)
(* TLA+ string standing for one path character ("acme" is one character of *)
(* the model).  "%20" is the escape of the character " ", and "%zz" is an  *)
(* escape that url.Parse rejects.  A URL string is a record                *)
(* [scheme, host, path] whose path is the raw (escaped) path.              *)
(***************************************************************************)
EXTENDS Integers, Sequences, FiniteSets, TLC

\* ------------------------------------------------------------------ bounds
MaxPages == 2
MaxPageLen == 2
MaxRepos == 2
MaxPasses == 2
MaxPathLen == 4

\* ------------------------------------------------------------ Go's strings
Slash == "/"

RECURSIVE TrimLeft(_)
TrimLeft(s) ==
    IF s # <<>> /\ Head(s) = Slash THEN TrimLeft(Tail(s)) ELSE s

RECURSIVE TrimRight(_)
TrimRight(s) ==
    IF s # <<>> /\ s[Len(s)] = Slash
    THEN TrimRight(SubSeq(s, 1, Len(s) - 1))
    ELSE s

\* strings.Trim(s, "/")
Trim(s) == TrimRight(TrimLeft(s))

\* strings.Split(s, "/"): n separators give n+1 fields, the empty string one
\* empty field.
RECURSIVE SplitFrom(_, _)
SplitFrom(s, cur) ==
    IF s = <<>> THEN <<cur>>
    ELSE IF Head(s) = Slash THEN <<cur>> \o SplitFrom(Tail(s), <<>>)
    ELSE SplitFrom(Tail(s), Append(cur, Head(s)))

Split(s) == SplitFrom(s, <<>>)

\* strings.Join(elems, "/")
RECURSIVE Join(_)
Join(elems) ==
    IF elems = <<>> THEN <<>>
    ELSE IF Len(elems) = 1 THEN elems[1]
    ELSE elems[1] \o <<Slash>> \o Join(Tail(elems))

\* strings.LastIndex(p, "/"), 1-based, 0 when there is none
LastSlash(p) ==
    LET S == {i \in 1..Len(p) : p[i] = Slash}
    IN  IF S = {} THEN 0 ELSE CHOOSE i \in S : \A j \in S : j <= i

\* path.Split: everything up to and including the final slash, and the rest
pathSplit(p) ==
    LET i == LastSlash(p)
    IN  [dir |-> SubSeq(p, 1, i), file |-> SubSeq(p, i + 1, Len(p))]

\* strings.ToLower on the host names of the model
ToLower(h) == IF h = "GitHub.com" THEN "github.com" ELSE h

\* ----------------------------------------------------------- Go's net/url
\* shouldEscape(c, encodePath) for the characters of the model
shouldEscape(c) == c = " "

\* net/url escape(s, encodePath)
RECURSIVE escape(_)
escape(s) ==
    IF s = <<>> THEN <<>>
    ELSE (IF shouldEscape(Head(s)) THEN <<"%20">> ELSE <<Head(s)>>)
         \o escape(Tail(s))

\* net/url unescape(s, encodePath): err on a malformed escape
unescapeOK(s) == \A i \in 1..Len(s) : s[i] # "%zz"

RECURSIVE unescape(_)
unescape(s) ==
    IF s = <<>> THEN <<>>
    ELSE (IF Head(s) = "%20" THEN <<" ">> ELSE <<Head(s)>>)
         \o unescape(Tail(s))

\* net/url validEncoded(s, encodePath): "%" passes, a raw space does not
validEncoded(s) == \A i \in 1..Len(s) : ~shouldEscape(s[i])

\* url.Parse: err is TRUE when the path holds a malformed escape
urlParse(raw) ==
    IF unescapeOK(raw.path)
    THEN [err |-> FALSE, Scheme |-> raw.scheme, Host |-> raw.host,
          Path |-> unescape(raw.path)]
    ELSE [err |-> TRUE, Scheme |-> "", Host |-> "", Path |-> <<>>]

\* (*URL).EscapedPath: RawPath when it is a valid encoding of Path, else
\* escape(Path)
EscapedPath(Path, RawPath) ==
    IF RawPath # <<>> /\ validEncoded(RawPath) /\ unescapeOK(RawPath)
       /\ unescape(RawPath) = Path
    THEN RawPath
    ELSE escape(Path)

\* (*URL).String for a URL with scheme, host and path
urlString(Scheme, Host, Path, RawPath) ==
    LET p == EscapedPath(Path, RawPath)
    IN  [scheme |-> Scheme, host |-> Host,
         path |-> IF p # <<>> /\ Head(p) # Slash /\ Host # ""
                  THEN <<Slash>> \o p ELSE p]

\* --------------------------------------------------------------- the flags
srcToken == [token |-> "SRC_TOKEN"]
tgtToken == [token |-> "TGT_TOKEN"]

URL(host, path) == [scheme |-> "https", host |-> host, path |-> path]

\* -src-url values: an organization, a repository, a repository whose name
\* needs escaping, no path, three segments, an empty segment in the middle,
\* a malformed escape.
SrcURLs ==
    { URL("github.com", <<"/", "acme">>),
      URL("github.com", <<"/", "acme", "/", "repo1">>),
      URL("GitHub.com", <<"/", "acme", "/", "my", "%20", "repo", "/">>),
      URL("github.com", <<>>),
      URL("github.com", <<"/", "acme", "/", "repo1", "/", "x">>),
      URL("github.com", <<"/", "acme", "/", "/", "repo1">>),
      URL("github.com", <<"/", "%zz">>) }

\* -tgt-url values: an organization, no path, a malformed escape, and for
\* the repo subcommand a repository.
TgtURLs(p) ==
    { URL("git.enterprise.test", <<"/", "widgets">>),
      URL("git.enterprise.test", <<>>),
      URL("git.enterprise.test", <<"/", "%zz">>) }
    \cup (IF p = "repo"
          THEN {URL("git.enterprise.test", <<"/", "widgets", "/", "repo1">>)}
          ELSE {})

\* the names the hosting API reports
RepoNames == {<<"a">>, <<"b">>}

\* ------------------------------------------------------------------- state
VARIABLES
    prog,       \* which program runs: "every", "org" or "repo"
    srcURL,     \* -src-url
    tgtURL,     \* -tgt-url
    every,      \* -every, 0 when absent
    pc,         \* where main is
    sig,        \* the SIGINT channel and its goroutine: "none", "pending", "handled"
    ctxDone,    \* ctx has been cancelled
    passNo,     \* iteration of main's loop
    repos,      \* the listing: a sequence of Repo
    pageIndex,  \* listReposForOrg's pageIndex
    idx,        \* position of the range loop over repos, from 1
    call,       \* arguments of the copy call in progress
    cloned,     \* what the local clone holds: "none", "cur", "old"
    err,        \* the error main holds, "nil" when none
    exitCode,   \* -1 while the process runs
    target,     \* the target service: repository key -> "empty", "old", "cur"
    pagesReq,   \* history: page indices asked of ListByOrg in this pass
    pagesGot,   \* history: pages ListByOrg returned in this pass
    calls,      \* history: the copy calls of this pass
    returned,   \* history: how many of them have returned
    steps,      \* history: steps of the copy call in progress, with outcomes
    interrupted \* history: SIGINT arrived while a pass was in progress

vars == <<prog, srcURL, tgtURL, every, pc, sig, ctxDone, passNo, repos,
          pageIndex, idx, call, cloned, err, exitCode, target, pagesReq,
          pagesGot, calls, returned, steps, interrupted>>

config == <<prog, srcURL, tgtURL, every>>
history == <<pagesReq, pagesGot, calls, returned, steps>>

NoURL == [scheme |-> "", host |-> "", path |-> <<>>]
NoCall == [src |-> NoURL, tgt |-> NoURL, srcTok |-> [token |-> ""],
           tgtTok |-> [token |-> ""]]

\* ------------------------------------------------------------ rewriteURL
\* a rewriteURL that takes the last field of the target path as organization
rewriteURL_lastField(r, t) ==
    LET tgtParsed == urlParse(t)
        fields == Split(Trim(tgtParsed.Path))
        org == fields[Len(fields)]
        newPath == <<Slash>> \o Join(<<org, r.Name>>)
    IN  IF tgtParsed.err
        THEN [err |-> "failed to parse target URL", updated |-> NoURL]
        ELSE [err |-> "nil",
              updated |-> urlString(tgtParsed.Scheme, tgtParsed.Host,
                                    newPath, newPath)]

\* a rewriteURL that rewrites the path of the repository's own URL
rewriteURL_keepsSourceHost(r, t) ==
    LET tgtParsed == urlParse(t)
        org == Split(Trim(tgtParsed.Path))[1]
        newPath == <<Slash>> \o Join(<<org, r.Name>>)
    IN  IF tgtParsed.err
        THEN [err |-> "failed to parse target URL", updated |-> NoURL]
        ELSE [err |-> "nil",
              updated |-> urlString(r.URL.scheme, r.URL.host, newPath, newPath)]

\* The organization is the first field of the trimmed target path; the new
\* URL keeps scheme and host and has Path and RawPath "/" + org + "/" + name.
rewriteURL(r, t) ==
    LET tgtParsed == urlParse(t)
        org == Split(Trim(tgtParsed.Path))[1]
        newPath == <<Slash>> \o Join(<<org, r.Name>>)
    IN  IF tgtParsed.err
        THEN [err |-> "failed to parse target URL", updated |-> NoURL]
        ELSE [err |-> "nil",
              updated |-> urlString(tgtParsed.Scheme, tgtParsed.Host,
                                    newPath, newPath)]

\* ------------------------------------------------------------- listRepos
\* a listRepos that lists the organization for two segments as well
resolve_alwaysLists(ghURL) ==
    LET u == urlParse(ghURL)
        segments == Split(Trim(u.Path))
    IN  IF u.err
        THEN [kind |-> "err", err |-> "failed to parse url", repos |-> <<>>]
        ELSE IF Len(segments) > 2
        THEN [kind |-> "err",
              err |-> "unexpected number of path segments in URL",
              repos |-> <<>>]
        ELSE [kind |-> "org", err |-> "nil", repos |-> <<>>]

\* What listRepos of src/unnamed/part_000 decides before any API call:
\* kind "org" hands over to listReposForOrg, kind "repo" returns repos.
resolve(ghURL) ==
    LET u == urlParse(ghURL)
        segments == Split(Trim(u.Path))
    IN  IF u.err
        THEN [kind |-> "err", err |-> "failed to parse url", repos |-> <<>>]
        ELSE IF Len(segments) = 1
        THEN [kind |-> "org", err |-> "nil", repos |-> <<>>]
        ELSE IF Len(segments) > 2
        THEN [kind |-> "err",
              err |-> "unexpected number of path segments in URL",
              repos |-> <<>>]
        ELSE [kind |-> "repo", err |-> "nil",
              repos |-> <<[Name |-> segments[2], URL |-> ghURL]>>]

\* listRepos of src/main.go has no such decision: it lists the organization
\* named by the first field whatever the path.
resolveOrgCmd(ghURL) ==
    IF urlParse(ghURL).err
    THEN [kind |-> "err", err |-> "failed to parse url", repos |-> <<>>]
    ELSE [kind |-> "org", err |-> "nil", repos |-> <<>>]

\* the organization listReposForOrg asks for
orgOf(ghURL) == Split(Trim(urlParse(ghURL).Path))[1]

\* the client's endpoint: github.com, or the enterprise host
isPublic(host) == ToLower(host) = "github.com"

\* what the hosting API reports for a repository of the listed organization
apiRepo(name) ==
    [Name |-> name,
     URL |-> [scheme |-> srcURL.scheme, host |-> ToLower(srcURL.host),
              path |-> <<Slash>> \o Join(<<escape(orgOf(srcURL)), escape(name)>>)]]

RECURSIVE SeqsUpTo(_, _)
SeqsUpTo(S, n) ==
    IF n = 0 THEN {<<>>}
    ELSE LET shorter == SeqsUpTo(S, n - 1)
         IN  shorter \cup {Append(q, x) : q \in shorter, x \in S}

\* the pages ListByOrg may return
Pages == {[i \in 1..Len(q) |-> apiRepo(q[i])] : q \in SeqsUpTo(RepoNames, MaxPageLen)}

\* ------------------------------------------------------------------ copy
\* owner and name of the repository copy creates and pushes to
ownerName(t) ==
    LET u == urlParse(t)
        sp == pathSplit(u.Path)
    IN  [owner |-> Trim(sp.dir), name |-> Trim(sp.file)]

\* a copy that goes on to push whatever Create answered
createFails_never(out) == FALSE

\* err != nil && !strings.Contains(err.Error(), "name already exists on
\* this account")
createFails(out) == out \notin {"ok", "exists"}

\* part_000: err != nil && !errors.Is(err, git.NoErrAlreadyUpToDate);
\* main.go: err != nil
pushFails(p, out) ==
    IF p = "every" THEN out \notin {"ok", "uptodate"} ELSE out # "ok"

\* a Create that is given context.Background() instead of ctx
createOutcomes_background(c, done, tg) ==
    LET k == ownerName(c.tgt)
    IN  IF c.tgtTok # tgtToken THEN {"unauthorized"}
        ELSE IF k.name = <<>> THEN {"other"}
        ELSE IF k \in DOMAIN tg THEN {"exists", "other"}
        ELSE {"ok", "other"}

\* What Repositories.Create can answer.  It is called with ctx, so a done
\* ctx gives the context's error.  The service rejects a credential that is
\* not the target token and an empty name, reports "name already exists on
\* this account" for a repository that is there, and can fail otherwise.
createOutcomes(c, done, tg) ==
    LET k == ownerName(c.tgt)
    IN  IF done THEN {"context canceled"}
        ELSE IF c.tgtTok # tgtToken THEN {"unauthorized"}
        ELSE IF k.name = <<>> THEN {"other"}
        ELSE IF k \in DOMAIN tg THEN {"exists", "other"}
        ELSE {"ok", "other"}

\* What repo.Push can answer.  It takes no context.  The service rejects a
\* credential that is not the target token and a repository that is not
\* there; go-git answers NoErrAlreadyUpToDate when the target holds what the
\* clone holds (two "old" contents may or may not be the same); the push can
\* fail otherwise.
pushOutcomes(c, cl, tg) ==
    LET k == ownerName(c.tgt)
    IN  IF c.tgtTok # tgtToken \/ k \notin DOMAIN tg THEN {"fail"}
        ELSE IF cl = "cur" /\ tg[k] = "cur" THEN {"uptodate", "fail"}
        ELSE IF cl = "old" /\ tg[k] = "old" THEN {"ok", "uptodate", "fail"}
        ELSE {"ok", "fail"}

\* ------------------------------------------------------------------ main
Nil == [msg |-> "nil", cause |-> "nil"]
Error(msg, cause) == [msg |-> msg, cause |-> cause]

NoTarget == [k \in {} |-> "empty"]

\* the state of a process that has just validated its flags
Start ==
    /\ pc = (IF prog = "repo" THEN "copy" ELSE "list")
    /\ sig = "none"
    /\ ctxDone = FALSE
    /\ passNo = 1
    /\ repos = <<>>
    /\ pageIndex = 0
    /\ idx = 1
    /\ call = NoCall
    /\ cloned = "none"
    /\ err = Nil
    /\ exitCode = -1
    /\ pagesReq = <<>>
    /\ pagesGot = <<>>
    /\ calls = <<>>
    /\ returned = 0
    /\ steps = <<>>
    /\ interrupted = FALSE

Init ==
    /\ prog \in {"every", "org", "repo"}
    /\ srcURL \in SrcURLs
    /\ tgtURL \in TgtURLs(prog)
    /\ every \in (IF prog = "every" THEN {0, 1} ELSE {0})
    /\ target = NoTarget
    /\ Start

\* an error that is printed and ends the range loop, not the process
Fail_breaks(e) ==
    /\ err' = e
    /\ exitCode' = exitCode
    /\ pc' = "wait"

\* os.Exit(1) after printing the error
Fail(e) ==
    /\ err' = e
    /\ exitCode' = 1
    /\ pc' = "exited"

\* main returns
Finish ==
    /\ err' = Nil
    /\ exitCode' = 0
    /\ pc' = "exited"

\* the tgtAccessToken argument main hands to copy
tgtAccessTokenArg == IF prog = "org" THEN tgtURL ELSE tgtToken

\* listRepos up to its first API call
ListRepos ==
    /\ pc = "list"
    /\ LET r == IF prog = "org" THEN resolveOrgCmd(srcURL) ELSE resolve(srcURL)
       IN  \/ /\ r.kind = "err"
              /\ Fail(Error("Failed to list repos", r.err))
              /\ UNCHANGED <<repos, pageIndex, idx>>
           \/ /\ r.kind = "org"
              /\ pc' = "page"
              /\ repos' = <<>>
              /\ pageIndex' = 0
              /\ UNCHANGED <<idx, err, exitCode>>
           \/ /\ r.kind = "repo"
              /\ pc' = "loop"
              /\ repos' = r.repos
              /\ idx' = 1
              /\ UNCHANGED <<pageIndex, err, exitCode>>
    /\ UNCHANGED <<config, sig, ctxDone, passNo, call, cloned, target,
                   history, interrupted>>

\* an inner loop that assigns the page instead of appending it
appendPage_overwrites(rs, page) == page

\* the inner loop of listReposForOrg: every item of the page is appended
appendPage(rs, page) == rs \o page

\* What client.Repositories.ListByOrg(ctx, org, page) can answer: the
\* context's error once ctx is done; otherwise an error, or any page of
\* repositories (an organization without a name has none to list, and an
\* organization has at most MaxRepos entries over at most MaxPages pages).
listOutcomes ==
    IF ctxDone THEN {[err |-> "context canceled", page |-> <<>>]}
    ELSE {[err |-> "api error", page |-> <<>>]}
         \cup (IF orgOf(srcURL) = <<>> THEN {}
               ELSE IF pageIndex >= MaxPages THEN {[err |-> "nil", page |-> <<>>]}
               ELSE {[err |-> "nil", page |-> r] :
                        r \in {q \in Pages : Len(repos) + Len(q) <= MaxRepos}})

\* one iteration of listReposForOrg's loop
ListByOrg ==
    /\ pc = "page"
    /\ pagesReq' = Append(pagesReq, pageIndex)
    /\ \E out \in listOutcomes :
          \/ /\ out.err # "nil"
             /\ Fail(Error("Failed to list repos", out.err))
             /\ UNCHANGED <<repos, pageIndex, idx, pagesGot>>
          \/ /\ out.err = "nil"
             /\ pagesGot' = Append(pagesGot, out.page)
             /\ IF Len(out.page) = 0
                THEN /\ pc' = "loop"
                     /\ idx' = 1
                     /\ UNCHANGED <<repos, pageIndex>>
                ELSE /\ repos' = appendPage(repos, out.page)
                     /\ pageIndex' = pageIndex + 1
                     /\ UNCHANGED <<pc, idx>>
             /\ UNCHANGED <<err, exitCode>>
    /\ UNCHANGED <<config, sig, ctxDone, passNo, call, cloned, target,
                   calls, returned, steps, interrupted>>

\* the range loop takes the next repo: rewriteURL, then the call of copy
RangeNext ==
    /\ pc = "loop"
    /\ idx <= Len(repos)
    /\ LET rw == rewriteURL(repos[idx], tgtURL)
       IN  IF rw.err # "nil"
           THEN /\ Fail(Error("Failed to rewrite URL", rw.err))
                /\ UNCHANGED <<call, calls, steps, cloned>>
           ELSE /\ call' = [src |-> repos[idx].URL, tgt |-> rw.updated,
                            srcTok |-> srcToken, tgtTok |-> tgtAccessTokenArg]
                /\ calls' = Append(calls, call')
                /\ steps' = <<>>
                /\ cloned' = "none"
                /\ pc' = "mkdir"
                /\ UNCHANGED <<err, exitCode>>
    /\ UNCHANGED <<config, sig, ctxDone, passNo, repos, pageIndex, idx,
                   target, pagesReq, pagesGot, returned, interrupted>>

\* RepoCmd calls copy with the flags as given
RepoCmd ==
    /\ pc = "copy"
    /\ call' = [src |-> srcURL, tgt |-> tgtURL, srcTok |-> srcToken,
                tgtTok |-> tgtToken]
    /\ calls' = Append(calls, call')
    /\ steps' = <<>>
    /\ cloned' = "none"
    /\ pc' = "mkdir"
    /\ UNCHANGED <<config, sig, ctxDone, passNo, repos, pageIndex, idx, err,
                   exitCode, target, pagesReq, pagesGot, returned, interrupted>>

\* a loop without the test of every: it always waits
PassDone_alwaysWaits ==
    /\ pc = "loop"
    /\ idx > Len(repos)
    /\ pc' = "wait"
    /\ UNCHANGED <<err, exitCode>>
    /\ UNCHANGED <<config, sig, ctxDone, passNo, repos, pageIndex, idx, call,
                   cloned, target, history, interrupted>>

\* the range loop is over
PassDone ==
    /\ pc = "loop"
    /\ idx > Len(repos)
    /\ IF every = 0
       THEN Finish
       ELSE /\ pc' = "wait"
            /\ UNCHANGED <<err, exitCode>>
    /\ UNCHANGED <<config, sig, ctxDone, passNo, repos, pageIndex, idx, call,
                   cloned, target, history, interrupted>>

\* copy gives main an error: "Failed to copy", os.Exit(1)
CopyFail(step, auth, msg, out) ==
    /\ steps' = Append(steps, [step |-> step, out |-> out, auth |-> auth])
    /\ Fail(Error(msg, out))

CopyStep(step, auth, out, next) ==
    /\ steps' = Append(steps, [step |-> step, out |-> out, auth |-> auth])
    /\ pc' = next
    /\ UNCHANGED <<err, exitCode>>

NoAuth == [token |-> ""]

\* os.MkdirTemp
MkdirTemp ==
    /\ pc = "mkdir"
    /\ \E out \in {"ok", "fail"} :
          IF out = "ok"
          THEN CopyStep("mkdir", NoAuth, out, "clone")
          ELSE CopyFail("mkdir", NoAuth, "failed to create temp directory", out)
    /\ UNCHANGED <<config, sig, ctxDone, passNo, repos, pageIndex, idx, call,
                   cloned, target, pagesReq, pagesGot, calls, returned,
                   interrupted>>

\* git.PlainClone with the source token; it takes no context
PlainClone ==
    /\ pc = "clone"
    /\ \E out \in (IF call.srcTok = srcToken THEN {"ok", "fail"} ELSE {"fail"}) :
          IF out = "ok"
          THEN /\ CopyStep("clone", call.srcTok, out, "parse")
               /\ cloned' = "cur"
          ELSE /\ CopyFail("clone", call.srcTok, "failed to clone", out)
               /\ UNCHANGED cloned
    /\ UNCHANGED <<config, sig, ctxDone, passNo, repos, pageIndex, idx, call,
                   target, pagesReq, pagesGot, calls, returned, interrupted>>

\* url.Parse(tgt) and the choice of the client's endpoint
ParseTarget ==
    /\ pc = "parse"
    /\ IF urlParse(call.tgt).err
       THEN CopyFail("parse", NoAuth, "failed to parse url", "fail")
       ELSE CopyStep("parse", NoAuth,
                     IF isPublic(urlParse(call.tgt).Host) THEN "public"
                     ELSE "enterprise", "create")
    /\ UNCHANGED <<config, sig, ctxDone, passNo, repos, pageIndex, idx, call,
                   cloned, target, pagesReq, pagesGot, calls, returned,
                   interrupted>>

\* client.Repositories.Create(ctx, owner, name) with the target token
CreateRepo ==
    /\ pc = "create"
    /\ \E out \in createOutcomes(call, ctxDone, target) :
          /\ IF createFails(out)
             THEN CopyFail("create", call.tgtTok,
                           "failed to create target repo", out)
             ELSE CopyStep("create", call.tgtTok, out, "push")
          /\ target' = IF out = "ok"
                       THEN target @@ (ownerName(call.tgt) :> "empty")
                       ELSE target
    /\ UNCHANGED <<config, sig, ctxDone, passNo, repos, pageIndex, idx, call,
                   cloned, pagesReq, pagesGot, calls, returned, interrupted>>

\* repo.Push with the target token, forced; it takes no context.  Then copy
\* returns and main goes on.
Push ==
    /\ pc = "push"
    /\ \E out \in pushOutcomes(call, cloned, target) :
          /\ steps' = Append(steps, [step |-> "push", out |-> out,
                                     auth |-> call.tgtTok])
          /\ target' = IF out = "ok"
                       THEN [target EXCEPT ![ownerName(call.tgt)] = cloned]
                       ELSE target
          /\ IF pushFails(prog, out)
             THEN /\ Fail(Error("failed to push to target", out))
                  /\ UNCHANGED <<idx, returned>>
             ELSE /\ returned' = returned + 1
                  /\ IF prog = "repo"
                     THEN Finish /\ UNCHANGED idx
                     ELSE /\ pc' = "loop"
                          /\ idx' = idx + 1
                          /\ UNCHANGED <<err, exitCode>>
    /\ UNCHANGED <<config, sig, ctxDone, passNo, repos, pageIndex, call,
                   cloned, pagesReq, pagesGot, calls, interrupted>>

\* the select after a pass: ctx.Done() is closed
WaitCancelled ==
    /\ pc = "wait"
    /\ ctxDone
    /\ Finish
    /\ UNCHANGED <<config, sig, ctxDone, passNo, repos, pageIndex, idx, call,
                   cloned, target, history, interrupted>>

\* the select after a pass: time.After(every) fires first; the loop starts
\* over with a new listing
WaitElapsed ==
    /\ pc = "wait"
    /\ ~ctxDone
    /\ passNo < MaxPasses
    /\ passNo' = passNo + 1
    /\ pc' = "list"
    /\ repos' = <<>>
    /\ pageIndex' = 0
    /\ idx' = 1
    /\ pagesReq' = <<>>
    /\ pagesGot' = <<>>
    /\ calls' = <<>>
    /\ returned' = 0
    /\ steps' = <<>>
    /\ UNCHANGED <<config, sig, ctxDone, call, cloned, err, exitCode, target,
                   interrupted>>

\* SIGINT reaches the channel sig
Signal ==
    /\ pc # "exited"
    /\ sig = "none"
    /\ sig' = "pending"
    /\ interrupted' = (pc # "wait")
    /\ UNCHANGED <<config, pc, ctxDone, passNo, repos, pageIndex, idx, call,
                   cloned, err, exitCode, target, history>>

\* the goroutine receives from sig and calls cancel()
Cancel ==
    /\ pc # "exited"
    /\ sig = "pending"
    /\ sig' = "handled"
    /\ ctxDone' = TRUE
    /\ UNCHANGED <<config, pc, passNo, repos, pageIndex, idx, call, cloned,
                   err, exitCode, target, history, interrupted>>

\* someone pushes to the source: what was current is now old
SourceChange ==
    /\ cloned = "cur" \/ \E k \in DOMAIN target : target[k] = "cur"
    /\ cloned' = IF cloned = "cur" THEN "old" ELSE cloned
    /\ target' = [k \in DOMAIN target |->
                    IF target[k] = "cur" THEN "old" ELSE target[k]]
    /\ UNCHANGED <<config, pc, sig, ctxDone, passNo, repos, pageIndex, idx,
                   call, err, exitCode, pagesReq, pagesGot, calls, returned,
                   steps, interrupted>>

\* the programs of src/main.go have no loop of their own: the operator runs
\* the same command line again
Restart ==
    /\ pc = "exited"
    /\ prog # "every"
    /\ pc' = (IF prog = "repo" THEN "copy" ELSE "list")
    /\ sig' = "none"
    /\ ctxDone' = FALSE
    /\ passNo' = 1
    /\ repos' = <<>>
    /\ pageIndex' = 0
    /\ idx' = 1
    /\ call' = NoCall
    /\ cloned' = "none"
    /\ err' = Nil
    /\ exitCode' = -1
    /\ pagesReq' = <<>>
    /\ pagesGot' = <<>>
    /\ calls' = <<>>
    /\ returned' = 0
    /\ steps' = <<>>
    /\ interrupted' = FALSE
    /\ UNCHANGED <<config, target>>

Next ==
    \/ ListRepos
    \/ ListByOrg
    \/ RangeNext
    \/ RepoCmd
    \/ PassDone
    \/ MkdirTemp
    \/ PlainClone
    \/ ParseTarget
    \/ CreateRepo
    \/ Push
    \/ WaitCancelled
    \/ WaitElapsed
    \/ Signal
    \/ Cancel
    \/ SourceChange
    \/ Restart

Spec == Init /\ [][Next]_vars

\* ============================================================ properties
Last(q) == q[Len(q)]
HasStep(st, o) == \E i \in 1..Len(steps) : steps[i].step = st /\ steps[i].out = o
CopySteps == {"mkdir", "clone", "parse", "create", "push"}
ListsByOrg == (IF prog = "org" THEN resolveOrgCmd(srcURL) ELSE resolve(srcURL)).kind = "org"
PassComplete == pc = "wait" \/ (pc = "exited" /\ exitCode = 0)

\* the non-empty path segments of a decoded path, in order
NonEmptyFields(p) == SelectSeq(Split(p), LAMBDA f : f # <<>>)

\* dest is scheme://host/{first non-empty segment of t}/{name}, escaped
DestOK(dest, t, name) ==
    LET d == urlParse(dest)
        f == NonEmptyFields(urlParse(t).Path)
        org == IF f = <<>> THEN <<>> ELSE f[1]
    IN  /\ ~d.err
        /\ \A i \in 1..Len(dest.path) : dest.path[i] # " "
        /\ d.Scheme = t.scheme
        /\ d.Host = t.host
        /\ d.Path = <<Slash>> \o org \o <<Slash>> \o name

\* C1: mirror idempotency.  A copy call that finds the target repository
\* already there goes on to push, and a copy call whose create found the
\* repository there and whose push had nothing new to push (clone and target
\* both hold the current source) returns no error.
C1_MirrorIdempotent ==
    /\ (steps # <<>> /\ Last(steps).step = "create"
        /\ Last(steps).out = "exists") => pc = "push"
    /\ (steps # <<>> /\ Last(steps).step = "push"
        /\ Last(steps).out = "uptodate" /\ HasStep("create", "exists")
        /\ cloned = "cur") => (err = Nil /\ exitCode # 1)

\* C2: fail-fast.  A failure of listing, of rewriteURL or of a copy step
\* ends the process at once with exit code 1; from then on no page is
\* requested, no copy is called, no step is taken and no pass is started.
C2_FailureExits ==
    /\ err # Nil => (pc = "exited" /\ exitCode = 1)
    /\ Len(pagesReq) > Len(pagesGot) => (pc = "exited" /\ exitCode = 1)
    /\ (steps # <<>> /\ Last(steps).out \in
           {"fail", "other", "unauthorized", "context canceled"})
          => (pc = "exited" /\ exitCode = 1)
    /\ (prog # "repo" /\ pc = "exited" /\ exitCode = 1)
          => (Len(calls) <= idx /\ returned = idx - 1)

C2_NothingAfterFailure ==
    (exitCode = 1 /\ (prog = "every" \/ exitCode' = 1))
        => UNCHANGED <<pc, passNo, pagesReq, calls, returned, steps, idx>>

\* C2: fail-fast, the two parts together: a failure exits with code 1 at
\* once, and after it nothing more is requested, called or started.
C2_FailFast == [](prog = "every" => C2_FailureExits) /\ [][C2_NothingAfterFailure]_vars

\* a pass with an interval configured died on its second repository
C2_Witness ==
    /\ prog = "every" /\ every = 1
    /\ exitCode = 1 /\ idx = 2 /\ Len(repos) = 2 /\ Len(calls) = 2
    /\ Last(steps).step = "clone" /\ Last(steps).out = "fail"

\* C3: organization pass ordering.  The copy calls of a pass are the listed
\* repositories in listing order, each with its own URL as source and with
\* scheme://host/org/name of the target as destination; a call starts only
\* when every earlier one has returned; a pass that completes has made one
\* call per listed repository.
C3_OrgPassOrdering ==
    (prog \in {"every", "org"} /\ ListsByOrg) =>
        /\ Len(calls) <= Len(repos)
        /\ \A i \in 1..Len(calls) :
              /\ calls[i].src = repos[i].URL
              /\ DestOK(calls[i].tgt, tgtURL, repos[i].Name)
        /\ returned <= Len(calls)
        /\ Len(calls) - returned <= 1
        /\ pc \in CopySteps => (Len(calls) = idx /\ returned = idx - 1)
        /\ PassComplete => (Len(calls) = Len(repos) /\ returned = Len(repos))

\* the pass over [a, b] is complete: widgets/a, then widgets/b
C3_Witness ==
    /\ prog = "every" /\ PassComplete
    /\ tgtURL = URL("git.enterprise.test", <<"/", "widgets">>)
    /\ Len(repos) = 2 /\ repos[1].Name = <<"a">> /\ repos[2].Name = <<"b">>
    /\ Len(calls) = 2
    /\ calls[1].tgt = URL("git.enterprise.test", <<"/", "widgets", "/", "a">>)
    /\ calls[2].tgt = URL("git.enterprise.test", <<"/", "widgets", "/", "b">>)

\* C4: run loop repetition.  With -every 0 there is one pass and then exit
\* code 0.  With an interval a completed pass goes to the wait; from there
\* main leaves with exit code 0 and no further pass when ctx is done, and
\* otherwise starts the next pass, which lists again from nothing.  A pass
\* starts in no other way.
C4_Inv ==
    prog = "every" =>
        /\ every = 0 => (passNo = 1 /\ pc # "wait")
        /\ pc = "wait" => (every # 0 /\ err = Nil /\ exitCode = -1
                           /\ returned = Len(repos))
        /\ pc = "list" => (repos = <<>> /\ pagesReq = <<>> /\ calls = <<>>)

C4_Step ==
    prog = "every" =>
        /\ (pc = "loop" /\ idx > Len(repos) /\ pc' # pc) =>
              IF every = 0
              THEN pc' = "exited" /\ exitCode' = 0 /\ passNo' = passNo
              ELSE pc' = "wait" /\ exitCode' = -1 /\ passNo' = passNo
        /\ (pc = "wait" /\ pc' # pc) =>
              IF ctxDone
              THEN /\ pc' = "exited" /\ exitCode' = 0 /\ passNo' = passNo
                   /\ pagesReq' = pagesReq /\ calls' = calls
              ELSE /\ pc' = "list" /\ passNo' = passNo + 1
                   /\ repos' = <<>> /\ pagesReq' = <<>> /\ calls' = <<>>
                   /\ pageIndex' = 0 /\ idx' = 1
        /\ passNo' # passNo => (pc = "wait" /\ ~ctxDone /\ every # 0)
        /\ (exitCode' = 0 /\ exitCode # 0) =>
              \/ pc = "loop" /\ every = 0 /\ idx > Len(repos)
              \/ pc = "wait" /\ ctxDone

\* C4: run loop repetition, the state part and the step part together.
C4_RunLoop == []C4_Inv /\ [][C4_Step]_vars

\* after the interval a second pass listed and copied again, and the
\* cancellation that came during the second wait ended the process cleanly
C4_Witness ==
    /\ prog = "every" /\ every = 1 /\ passNo = 2
    /\ pc = "exited" /\ exitCode = 0 /\ ctxDone /\ ~interrupted
    /\ Len(pagesReq) = 2 /\ Len(calls) = 1

\* C5 as stated: an interrupt during a pass has no effect on the pass, so no
\* pass ever fails because of the cancellation.
C5_InterruptHasNoEffectOnPass ==
    prog = "every" => ~(exitCode = 1 /\ err.cause = "context canceled")

\* C5 amended: mkdir, clone, parse and push never end with the context's
\* error; a page request or a create made once ctx is done fails with
\* "context canceled" and the process exits with code 1; at the wait a done
\* ctx gives exit code 0.
C5_Inv ==
    prog = "every" =>
        /\ \A i \in 1..Len(steps) :
              steps[i].out = "context canceled" => steps[i].step = "create"
        /\ err.cause = "context canceled" =>
              /\ ctxDone /\ exitCode = 1
              /\ \/ err.msg = "Failed to list repos" /\ Len(pagesReq) > Len(pagesGot)
                 \/ err.msg = "failed to create target repo"
                    /\ Last(steps).step = "create"

C5_Step ==
    prog = "every" =>
        /\ (ctxDone /\ pc = "page" /\ pagesReq' # pagesReq) =>
              (exitCode' = 1 /\ err'.cause = "context canceled")
        /\ (ctxDone /\ pc = "create" /\ steps' # steps) =>
              (exitCode' = 1 /\ err'.cause = "context canceled"
               /\ target' = target)
        /\ (ctxDone /\ pc = "wait" /\ pc' # pc) => exitCode' = 0

\* C5 amended, the state part and the step part together: cancellation
\* fails the page requests and creates made after it, leaves the other steps
\* alone, and gives exit code 0 at the wait.
C5_CancelFailsAPICalls == []C5_Inv /\ [][C5_Step]_vars

\* SIGINT came while the first repository was being cloned; the clone went
\* on and succeeded, the create that followed failed with the context's
\* error, and the process ended with exit code 1
C5_Witness ==
    /\ prog = "every" /\ interrupted /\ ctxDone
    /\ pc = "exited" /\ exitCode = 1
    /\ HasStep("clone", "ok")
    /\ Last(steps).step = "create" /\ Last(steps).out = "context canceled"

\* C6 as stated: the number n of non-empty path segments decides: n = 1
\* lists the organization, n = 2 gives the one repository {second segment,
\* input URL} without listing, any other n fails with the segment-count
\* error before any page is requested or any copy called.
C6_SegmentCountDecides ==
    (prog = "every" /\ ~urlParse(srcURL).err) =>
        LET f == NonEmptyFields(urlParse(srcURL).Path)
            n == Len(f)
        IN  /\ n = 1 => (pc # "list" => (pc = "page" \/ pagesReq # <<>>))
            /\ n = 2 => /\ pagesReq = <<>> /\ pc # "page"
                        /\ pc # "list" =>
                              repos = <<[Name |-> f[2], URL |-> srcURL]>>
            /\ n \notin {1, 2} =>
                  /\ pagesReq = <<>> /\ pc # "page" /\ calls = <<>>
                  /\ pc # "list" =>
                        /\ pc = "exited" /\ exitCode = 1
                        /\ err.cause = "unexpected number of path segments in URL"

\* C7: single-repository pass.  For a source URL of exactly two segments no
\* page is ever requested, copy is called at most once, with the input URL
\* as source and scheme://host/org/name of the target as destination, and
\* exactly once unless rewriteURL failed.
C7_SingleRepoPass ==
    (prog = "every" /\ ~urlParse(srcURL).err
       /\ Len(Split(Trim(urlParse(srcURL).Path))) = 2) =>
        LET f == NonEmptyFields(urlParse(srcURL).Path)
        IN  /\ Len(f) = 2
            /\ pagesReq = <<>> /\ pagesGot = <<>> /\ pc # "page"
            /\ Len(calls) <= 1
            /\ \A i \in 1..Len(calls) :
                  /\ calls[i].src = srcURL
                  /\ DestOK(calls[i].tgt, tgtURL, f[2])
            /\ (pc \in CopySteps \/ PassComplete) => Len(calls) = 1
            /\ (pc = "exited" /\ calls = <<>>) =>
                  (err.msg = "Failed to rewrite URL" /\ urlParse(tgtURL).err)

\* the pass for https://github.com/acme/repo1 is complete: one copy, to
\* widgets/repo1, and no page requested
C7_Witness ==
    /\ prog = "every" /\ PassComplete
    /\ srcURL = URL("github.com", <<"/", "acme", "/", "repo1">>)
    /\ pagesReq = <<>> /\ Len(calls) = 1 /\ returned = 1
    /\ calls[1].src = srcURL
    /\ calls[1].tgt = URL("git.enterprise.test", <<"/", "widgets", "/", "repo1">>)

\* C9 as stated: a target URL that cannot be parsed, or that has no
\* organization segment, makes rewriteURL fail, so that no copy is called
\* and no copy step is taken.
C9_MalformedTargetNoMirror ==
    (prog \in {"every", "org"}
       /\ (urlParse(tgtURL).err \/ NonEmptyFields(urlParse(tgtURL).Path) = <<>>)) =>
        /\ calls = <<>> /\ steps = <<>> /\ pc \notin CopySteps
        /\ (pc = "exited" /\ repos # <<>>) => err.msg = "Failed to rewrite URL"

RECURSIVE Flatten(_)
Flatten(pages) ==
    IF pages = <<>> THEN <<>> ELSE Head(pages) \o Flatten(Tail(pages))

\* C10: pagination.  The pages requested are 0, 1, 2, ... each once; an
\* empty page is the last one requested; a request that gives an error ends
\* the listing and the process; the listing is the pages received, joined in
\* the order received.
C10_Pagination ==
    prog \in {"every", "org"} =>
        /\ pagesReq = [i \in 1..Len(pagesReq) |-> i - 1]
        /\ Len(pagesGot) <= Len(pagesReq)
        /\ Len(pagesReq) - Len(pagesGot) <= 1
        /\ \A i \in 1..Len(pagesGot) :
              pagesGot[i] = <<>> => (i = Len(pagesReq) /\ pc # "page")
        /\ Len(pagesReq) > Len(pagesGot) =>
              (pc = "exited" /\ exitCode = 1 /\ err.msg = "Failed to list repos")
        /\ pc = "page" => pageIndex = Len(pagesReq)
        /\ ListsByOrg => repos = Flatten(pagesGot)

\* the listing ended on the third request, with [b] then [b] received: the
\* duplicate is kept
C10_Witness ==
    /\ prog = "every" /\ pc = "loop"
    /\ pagesReq = <<0, 1, 2>>
    /\ Len(pagesGot) = 3 /\ pagesGot[3] = <<>>
    /\ Len(repos) = 2 /\ repos[1].Name = <<"b">> /\ repos[2] = repos[1]

\* the steps of copy in the order of its code, and the message copy wraps
\* the error of each in
StepOrder == <<"mkdir", "clone", "parse", "create", "push">>
StepMsg ==
    [s \in CopySteps |->
        CASE s = "mkdir" -> "failed to create temp directory"
          [] s = "clone" -> "failed to clone"
          [] s = "parse" -> "failed to parse url"
          [] s = "create" -> "failed to create target repo"
          [] s = "push" -> "failed to push to target"]
CopyMsgs == {StepMsg[s] : s \in CopySteps}

\* what counts as success of a step of copy
StepSucceeded(s) ==
    CASE s.step \in {"mkdir", "clone"} -> s.out = "ok"
      [] s.step = "parse" -> s.out \in {"public", "enterprise"}
      [] s.step = "create" -> s.out \in {"ok", "exists"}
      [] s.step = "push" -> ~pushFails(prog, s.out)

C11_Inv ==
    /\ Len(steps) <= Len(StepOrder)
    /\ \A i \in 1..Len(steps) :
          /\ steps[i].step = StepOrder[i]
          /\ i < Len(steps) => StepSucceeded(steps[i])
    /\ pc \in CopySteps =>
          /\ Len(steps) < Len(StepOrder)
          /\ pc = StepOrder[Len(steps) + 1]
          /\ steps # <<>> => StepSucceeded(Last(steps))
    /\ (steps # <<>> /\ ~StepSucceeded(Last(steps))) =>
          /\ pc = "exited" /\ exitCode = 1
          /\ err.msg = StepMsg[Last(steps).step]
          /\ err.cause = Last(steps).out
    /\ err.msg \in CopyMsgs =>
          /\ steps # <<>> /\ ~StepSucceeded(Last(steps))
          /\ err.msg = StepMsg[Last(steps).step]

C11_Step ==
    /\ (steps' # steps /\ steps' # <<>>) =>
          /\ pc \in CopySteps
          /\ Len(steps') = Len(steps) + 1
          /\ SubSeq(steps', 1, Len(steps)) = steps
          /\ Last(steps').step = pc
    /\ DOMAIN target' # DOMAIN target =>
          /\ pc = "create"
          /\ HasStep("mkdir", "ok") /\ HasStep("clone", "ok")
    /\ (\E k \in DOMAIN target : target'[k] # target[k] /\ pc # "exited"
           /\ pc' # pc) =>
          /\ pc = "push"
          /\ HasStep("clone", "ok")
          /\ HasStep("create", "ok") \/ HasStep("create", "exists")

\* C11: step ordering inside one copy call.  The steps taken are a prefix of
\* mkdir, clone, parse, create, push; every step but the last one taken has
\* succeeded, "exists" of create counting as success; so a create is issued
\* only after mkdir and clone succeeded and a push only after create gave
\* "ok" or "exists"; a step that fails ends copy, and the error main holds
\* carries the message of that step.
C11_StepOrdering == []C11_Inv /\ [][C11_Step]_vars

\* the staging directory, the clone and the parse succeeded, the create
\* failed for another reason than "exists": copy ended there, no push
C11_Witness ==
    /\ prog = "every"
    /\ Len(steps) = 4
    /\ steps[2].step = "clone" /\ steps[2].out = "ok"
    /\ steps[4].step = "create" /\ steps[4].out = "other"
    /\ ~HasStep("push", "ok") /\ ~HasStep("push", "fail")
    /\ pc = "exited" /\ exitCode = 1
    /\ err.msg = "failed to create target repo"

\* C12 as stated: credential routing.  In every copy call of every program
\* the clone is made with the source token, and the create and the push are
\* made with the target token; nothing else is ever used as a credential.
C12_CredentialRouting ==
    \A i \in 1..Len(steps) :
        /\ steps[i].step = "clone" => steps[i].auth = srcToken
        /\ steps[i].step \in {"create", "push"} => steps[i].auth = tgtToken

\* --------------------------------------------- rewriteURL on its own
\* every target URL whose raw path has at most MaxPathLen characters
PathChars == {Slash, "a", "%20", "%zz"}
TargetPaths == SeqsUpTo(PathChars, MaxPathLen)

InitURL ==
    /\ prog = "every"
    /\ srcURL \in SrcURLs
    /\ tgtURL \in {[scheme |-> "https", host |-> h, path |-> q] :
                     h \in {"git.enterprise.test", "GitHub.com"},
                     q \in TargetPaths}
    /\ every = 0
    /\ target = NoTarget
    /\ Start

NextURL == ListRepos \/ RangeNext

SpecURL == InitURL /\ [][NextURL]_vars

\* C8: rewriteURL keeps the repository name.  For every target URL that
\* parses, every copy call's destination has the target's scheme and host
\* and the path /{first non-empty segment of the target}/{name of the
\* repository}, escaped, whatever the repository's own URL is; rewriteURL
\* fails only for a target that does not parse.
C8_RewriteKeepsName ==
    /\ \A i \in 1..Len(calls) : DestOK(calls[i].tgt, tgtURL, repos[i].Name)
    /\ (pc = "exited" /\ err.msg = "Failed to rewrite URL") => urlParse(tgtURL).err
    /\ (pc = "mkdir") => (~urlParse(tgtURL).err /\ Len(calls) = 1)

\* the repository "my repo" is rewritten into the organization a of the
\* target /a/%20
C8_Witness ==
    /\ tgtURL = [scheme |-> "https", host |-> "GitHub.com",
                 path |-> <<"/", "a", "/", "%20">>]
    /\ Len(calls) = 1
    /\ repos[1].Name = <<"my", " ", "repo">>
    /\ calls[1].tgt = [scheme |-> "https", host |-> "GitHub.com",
                       path |-> <<"/", "a", "/", "my", "%20", "repo">>]

====
